---------------------------- MODULE Spec2Model ----------------------------
(***************************************************************************)
(* A model of src/main.py: a chat bot that classifies an inbound URL,      *)
(* downloads media through one of three pipelines (batch = Spotify,        *)
(* scrape = Pinterest, single item = YouTube), sends the result and        *)
(* removes its transient files.                                            *)
(*                                                                         *)
(* Text is modelled as a tuple of one-character strings so that prefix     *)
(* tests, substring tests, strip, lower, replace and split are computed    *)
(* character by character as the Python code computes them.                *)
(*                                                                         *)
(* Scheduling.  The program runs on one asyncio event loop.  A coroutine   *)
(* runs without interruption from one await to the next; a synchronous     *)
(* blocking call holds the loop for its whole duration (loopHeld names     *)
(* the coroutine inside such a call); asyncio.to_thread runs a function    *)
(* on a worker thread while the loop is free.  The Application is built    *)
(* without concurrent_updates (main, line 255), so it awaits one handler   *)
(* before it starts the next; only the tasks spawned with create_task run  *)
(* concurrently with a handler and with each other.                        *)
(***************************************************************************)
EXTENDS Integers, Sequences, FiniteSets, TLC

(***************************************************************************)
(* Bounds of the model.                                                    *)
(***************************************************************************)
MaxUpdates == 2
MaxTracks == 2

(***************************************************************************)
(* Text literals of the program and of the modelled inputs.                *)
(***************************************************************************)
Http == <<"h","t","t","p",":","/","/">>
Https == <<"h","t","t","p","s",":","/","/">>
NeedleSpotify == <<"s","p","o","t","i","f","y",".","c","o","m">>
NeedlePinterest == <<"p","i","n","t","e","r","e","s","t",".">>
NeedlePinIt == <<"p","i","n",".","i","t">>
NeedleYoutube == <<"y","o","u","t","u","b","e",".","c","o","m">>
NeedleYoutuBe == <<"y","o","u","t","u",".","b","e">>
YtPrefix == <<"y","t","|">>
Mp3 == <<"m","p","3">>
Mp4 == <<"m","p","4">>
PlaylistName == <<"P","l","a","y","l","i","s","t">>
Upper == <<"A","B","C","D","E","F","G","H","I","J","K","L","M","N","O","P","Q","R","S","T","U","V","W","X","Y","Z">>
LowerAZ == <<"a","b","c","d","e","f","g","h","i","j","k","l","m","n","o","p","q","r","s","t","u","v","w","x","y","z">>
Digits == <<"0","1","2","3","4","5","6","7","8","9">>
Punct == <<" ",":","/",".","|","_","-","?","#","+">>
Alphabet == LowerAZ \o Upper \o Digits \o Punct

\* inbound texts
TextPlain == <<"n","o","t"," ","a"," ","u","r","l">>
UrlTrack == <<"h","t","t","p","s",":","/","/","s","p","o","t","i","f","y",".","c","o","m","/","t">>
UrlList == <<"h","t","t","p","s",":","/","/","s","p","o","t","i","f","y",".","c","o","m","/","p">>
UrlPin == <<"h","t","t","p","s",":","/","/","p","i","n",".","i","t","/","x">>
UrlTube == <<"h","t","t","p","s",":","/","/","y","o","u","t","u",".","b","e","/","v">>
TextOther == <<" ","h","t","t","p","s",":","/","/","x",".","i","o","/"," ">>
Texts == {TextPlain, UrlTrack, UrlList, UrlPin, UrlTube, TextOther}

\* inbound URLs whose host holds the domain of more than one platform, or holds a
\* platform's domain in capitals, or holds none while the path does
UrlSpotPin == <<"h","t","t","p","s",":","/","/","s","p","o","t","i","f","y",".","c","o","m",".","p","i","n",".","i","t","/">>
UrlPinTube == <<"h","t","t","p",":","/","/","p","i","n","t","e","r","e","s","t",".","y","o","u","t","u","b","e",".","c","o","m","/">>
UrlTubeSpot == <<"h","t","t","p","s",":","/","/","y","o","u","t","u",".","b","e",".","s","p","o","t","i","f","y",".","c","o","m","/">>
UrlPinCaps == <<"h","t","t","p","s",":","/","/","P","I","N",".","I","T",".","y","o","u","t","u",".","b","e","/">>
UrlPathOnly == <<"h","t","t","p","s",":","/","/","x",".","i","o","/","s","p","o","t","i","f","y",".","c","o","m">>
OverlapTexts == {UrlSpotPin, UrlPinTube, UrlTubeSpot, UrlPinCaps, UrlPathOnly}

\* a URL of the third platform that holds the payload's delimiter, and button
\* payloads that are not of this program's making
UrlTubeBar == <<"h","t","t","p","s",":","/","/","y","o","u","t","u",".","b","e","/","a","|","b">>
TubeTexts == {UrlTube, UrlTubeBar}
ForeignPayloads == {<<"z","z","|","m","p","3","|","h","t","t","p","s",":","/","/","y","o","u","t","u",".","b","e","/","v">>, <<"y","t">>, <<"y","t","|","m","p","3">>}

\* artists of the modelled catalogue
ArtistAB == <<"A"," ","B">>
ArtistC == <<"C">>

(***************************************************************************)
(* String functions, computed as Python computes them.                     *)
(***************************************************************************)
Min(a, b) == IF a <= b THEN a ELSE b

Range(s) == {s[i] : i \in 1..Len(s)}

\* s.startswith(p)
StartsWith(s, p) == Len(p) <= Len(s) /\ SubSeq(s, 1, Len(p)) = p

\* p in s
Contains(s, p) ==
    \E i \in 0..(Len(s) - Len(p)) : SubSeq(s, i + 1, i + Len(p)) = p

\* s.find(c, from): the least index >= from holding one of the characters cs, else 0
FindAny(s, cs, from) ==
    LET hits == {i \in from..Len(s) : s[i] \in cs}
    IN  IF hits = {} THEN 0 ELSE CHOOSE i \in hits : \A j \in hits : i <= j

\* c.lower()
LowerChar(c) ==
    IF \E i \in 1..Len(Upper) : Upper[i] = c
    THEN LowerAZ[CHOOSE i \in 1..Len(Upper) : Upper[i] = c]
    ELSE c

\* s.lower()
Lower(s) == [i \in 1..Len(s) |-> LowerChar(s[i])]

\* s.strip(): leading and trailing blanks removed
Strip(s) ==
    LET solid == {i \in 1..Len(s) : s[i] # " "}
    IN  IF solid = {} THEN <<>>
        ELSE SubSeq(s, CHOOSE i \in solid : \A j \in solid : i <= j,
                       CHOOSE i \in solid : \A j \in solid : j <= i)

\* s.replace(a, b) for single characters a, b
Replace(s, a, b) == [i \in 1..Len(s) |-> IF s[i] = a THEN b ELSE s[i]]

\* urlparse(url).netloc: after "<scheme>:" a leading "//" opens the network
\* location, which runs to the first "/", "?" or "#"
NetLoc(url) ==
    LET colon == FindAny(url, {":"}, 1)
        schemeChars == Range(LowerAZ) \cup Range(Upper) \cup Range(Digits) \cup {"+", "-", "."}
        hasScheme == /\ colon > 1
                     /\ url[1] \in Range(LowerAZ) \cup Range(Upper)
                     /\ \A i \in 1..(colon - 1) : url[i] \in schemeChars
        rest == IF hasScheme THEN SubSeq(url, colon + 1, Len(url)) ELSE url
        stop == FindAny(rest, {"/", "?", "#"}, 3)
    IN  IF StartsWith(rest, <<"/", "/">>)
        THEN SubSeq(rest, 3, IF stop = 0 THEN Len(rest) ELSE stop - 1)
        ELSE <<>>

\* hash(url): a function of the text alone (the model keeps 16 bits of it)
CharCode(c) == CHOOSE i \in 1..Len(Alphabet) : Alphabet[i] = c

RECURSIVE HashFrom(_, _)
HashFrom(s, h) ==
    IF s = <<>> THEN h
    ELSE HashFrom(Tail(s), (h * 31 + CharCode(Head(s))) % (2^16))

Hash(s) == HashFrom(s, 0)

(***************************************************************************)
(* The classifier.                                                         *)
(***************************************************************************)
is_spotify_url(url) == Contains(NetLoc(url), NeedleSpotify)

is_pinterest_url(url) ==
    LET domain == Lower(NetLoc(url))
    IN  Contains(domain, NeedlePinterest) \/ Contains(domain, NeedlePinIt)

is_youtube_url(url) ==
    LET domain == Lower(NetLoc(url))
    IN  Contains(domain, NeedleYoutube) \/ Contains(domain, NeedleYoutuBe)

\* Classify without the scheme guard of line 195
ClassifyUnguarded(text) ==
    LET url == Strip(text)
    IN  IF is_spotify_url(url) THEN "spotify"
        ELSE IF is_pinterest_url(url) THEN "pinterest"
        ELSE IF is_youtube_url(url) THEN "youtube"
        ELSE "unsupported"

\* Classify with the second test before the first
ClassifyPinFirst(text) ==
    LET url == Strip(text)
    IN  IF ~(StartsWith(url, Http) \/ StartsWith(url, Https)) THEN "ignored"
        ELSE IF is_pinterest_url(url) THEN "pinterest"
        ELSE IF is_spotify_url(url) THEN "spotify"
        ELSE IF is_youtube_url(url) THEN "youtube"
        ELSE "unsupported"

\* the branch handle_message takes for a text (lines 194-229)
Classify(text) ==
    LET url == Strip(text)
    IN  IF ~(StartsWith(url, Http) \/ StartsWith(url, Https)) THEN "ignored"
        ELSE IF is_spotify_url(url) THEN "spotify"
        ELSE IF is_pinterest_url(url) THEN "pinterest"
        ELSE IF is_youtube_url(url) THEN "youtube"
        ELSE "unsupported"

\* Classify, tabulated over the modelled inbound texts
ClassOf == [text \in Texts \cup OverlapTexts \cup TubeTexts |-> Classify(text)]


(***************************************************************************)
(* Collaborators' possible answers.                                        *)
(***************************************************************************)
\* the catalogue's tracks: title and artist; a downloaded track is the file <title>.mp3
TrackA == [title |-> "a", artist |-> ArtistAB]
TrackB == [title |-> "b", artist |-> ArtistC]
Catalogue == {TrackA, TrackB}

RECURSIVE SeqsUpTo(_, _)
SeqsUpTo(S, n) ==
    IF n = 0 THEN {<<>>}
    ELSE LET shorter == SeqsUpTo(S, n - 1)
         IN  shorter \cup {Append(q, x) : q \in {r \in shorter : Len(r) = n - 1}, x \in S}

\* what spotdl_client.search may return: for the URL of a track, that track or
\* nothing; for any other URL, any list of at most MaxTracks tracks
SongLists == SeqsUpTo(Catalogue, MaxTracks)

SearchResults(url) == IF url = UrlTrack THEN {<<>>, <<TrackA>>} ELSE SongLists

\* lengths of the text of a raised exception
ErrLens == {10, 350}

\* what download_song may do on its worker thread
DownloadOutcomes == {"file", "none", "raise"}

MiB == 1024 * 1024
SizeLimitMB == 48

\* sizes in bytes a written archive may have
ArchiveSizes == {SizeLimitMB * MiB - 1, SizeLimitMB * MiB, SizeLimitMB * MiB + 60000}

\* f"{file_size_mb:.1f}": the size in MB rounded to a tenth, as a number of tenths
\* (no size is exactly halfway between two tenths: 2^20 is not a multiple of 5)
FormatTenths(bytes) ==
    (bytes \div MiB) * 10 + (20 * (bytes % MiB) + MiB) \div (2 * MiB)

\* file_size_mb < 48
UnderLimit(bytes) == bytes < SizeLimitMB * MiB

\* str(e)[:k]
Truncate(len, k) == Min(len, k)

(***************************************************************************)
(* State.                                                                  *)
(***************************************************************************)
VARIABLES
    nUpd,       \* number of inbound updates taken from the transport so far
    inbox,      \* the updates taken so far: kind ("text", "button") and text
    handler,    \* the handler coroutine the Application is awaiting (pc = "idle": none)
    tasks,      \* the process_spotify tasks, by the id of the update that spawned them
                \* (reportRaised notes that a failure report of the task raised)
    loopHeld,   \* <<>>, or the coroutine that is inside a synchronous blocking call
    wsDirs,     \* downloads/temp_<hash>: hash -> names of the files in the directory
    zipFiles,   \* downloads/<name>.zip: name -> entries of the archive
    cwdFiles,   \* track files the batch collaborator has written and nobody moved yet
    pinFiles,   \* downloads/pin_<hash>.<ext> files
    ytFiles,    \* files written by the extraction collaborator
    keyboards,  \* callback payloads of the buttons sent so far
    outbox,     \* per update: the sends that reached the requester, in order
    calls,      \* per update: number of collaborator calls (search, download, fetch, extract)
    ended       \* per update: how its handler ended ("no", "returned", "raised")

vars == <<nUpd, inbox, handler, tasks, loopHeld, wsDirs, zipFiles, cwdFiles, pinFiles,
          ytFiles, keyboards, outbox, calls, ended>>

Ids == 1..MaxUpdates

IdleHandler ==
    [id |-> 0, pc |-> "idle", hasMessage |-> FALSE, data |-> <<>>, url |-> <<>>,
     fmt |-> <<>>, files |-> <<>>, idx |-> 0, res |-> "none", file_path |-> <<>>]

NoTask ==
    [pc |-> "none", url |-> <<>>, songs |-> <<>>, name |-> <<>>, temp_dir |-> -1,
     zip_path |-> <<>>, i |-> 0,
     res |-> "none", tried |-> <<>>, got |-> 0, archive |-> <<>>, size |-> 0,
     reportRaised |-> FALSE]

Init ==
    /\ nUpd = 0
    /\ inbox = <<>>
    /\ handler = IdleHandler
    /\ tasks = [t \in Ids |-> NoTask]
    /\ loopHeld = <<>>
    /\ wsDirs = <<>>
    /\ zipFiles = <<>>
    /\ cwdFiles = {}
    /\ pinFiles = {}
    /\ ytFiles = {}
    /\ keyboards = {}
    /\ outbox = [t \in Ids |-> <<>>]
    /\ calls = [t \in Ids |-> 0]
    /\ ended = [t \in Ids |-> "no"]

(***************************************************************************)
(* Helpers on the state.                                                   *)
(***************************************************************************)
LoopFree == loopHeld = <<>>

Msg(kind, tag, arg) == [kind |-> kind, tag |-> tag, arg |-> arg]

Deliver(id, m) == outbox' = [outbox EXCEPT ![id] = Append(@, m)]

Called(id) == calls' = [calls EXCEPT ![id] = @ + 1]

\* a function without the key k
Without(f, k) == [x \in DOMAIN f \ {k} |-> f[x]]

\* a function with f[k] = v
With(f, k, v) == [x \in DOMAIN f \cup {k} |-> IF x = k THEN v ELSE f[x]]

SetTask(t, r) == tasks' = [tasks EXCEPT ![t] = r]

\* the file download_song writes for a track
FileOf(song) == song.title

(***************************************************************************)
(* process_spotify                                                         *)
(***************************************************************************)
\* temp_dir = DOWNLOAD_DIR / f"temp_{hash(url)}"
TempDir(url) == Hash(url)

\* temp_dir.mkdir(exist_ok=True)
MkDir(dirs, dir) == IF dir \in DOMAIN dirs THEN dirs ELSE With(dirs, dir, {})

\* name = songs[0].artist if len(songs) == 1 else "Playlist"
BatchName(songs) == IF Len(songs) = 1 THEN songs[1].artist ELSE PlaylistName

\* zip_path = DOWNLOAD_DIR / f"{name.replace(' ', '_')}.zip"
ZipPath(name) == Replace(name, " ", "_")

\* shutil.rmtree(temp_dir, ignore_errors=True)
RmTree(dirs, dir) == Without(dirs, dir)

\* zip_path.unlink(missing_ok=True)
Unlink(zips, path) == Without(zips, path)

\* a task that returned, or that an exception left: only what it was about is kept
Ended(r, how) ==
    [NoTask EXCEPT !.pc = how, !.url = r.url, !.temp_dir = r.temp_dir,
                   !.zip_path = r.zip_path, !.reportRaised = r.reportRaised]

\* the "# Cleanup" lines 175-176
Cleanup(t) ==
    /\ wsDirs' = RmTree(wsDirs, tasks[t].temp_dir)
    /\ zipFiles' = Unlink(zipFiles, tasks[t].zip_path)

\* the except clause of line 178: the exception is reported by reply_text
ToErr(r) == [r EXCEPT !.pc = "await_err"]

\* the task's first step: spotdl_client.search([url]) is called on the loop's thread
SpotifySearch(t) ==
    /\ tasks[t].pc = "start"
    /\ LoopFree
    /\ loopHeld' = <<"task", t>>
    /\ SetTask(t, [tasks[t] EXCEPT !.pc = "searching"])
    /\ Called(t)
    /\ UNCHANGED <<nUpd, inbox, handler, wsDirs, zipFiles, cwdFiles, pinFiles, ytFiles,
                   keyboards, outbox, ended>>

\* search returns: lines 131-136, up to the await of a reply_text
SearchReturn(t) ==
    /\ tasks[t].pc = "searching"
    /\ \E songs \in SearchResults(tasks[t].url) :
          SetTask(t, [tasks[t] EXCEPT
                        !.pc = IF songs = <<>> THEN "await_none" ELSE "await_found",
                        !.songs = songs,
                        !.name = IF songs = <<>> THEN <<>> ELSE BatchName(songs)])
    /\ loopHeld' = <<>>
    /\ UNCHANGED <<nUpd, inbox, handler, wsDirs, zipFiles, cwdFiles, pinFiles, ytFiles,
                   keyboards, outbox, calls, ended>>

\* search raises
SearchRaise(t) ==
    /\ tasks[t].pc = "searching"
    /\ SetTask(t, ToErr(tasks[t]))
    /\ loopHeld' = <<>>
    /\ UNCHANGED <<nUpd, inbox, handler, wsDirs, zipFiles, cwdFiles, pinFiles, ytFiles,
                   keyboards, outbox, calls, ended>>

\* NoneReplied without the return of line 133: the task goes on to line 135
NoneRepliedGoesOn(t) ==
    /\ tasks[t].pc = "await_none"
    /\ LoopFree
    /\ Deliver(t, Msg("text", "no_tracks", 0))
    /\ SetTask(t, [tasks[t] EXCEPT !.pc = "await_found", !.name = BatchName(tasks[t].songs)])
    /\ UNCHANGED <<nUpd, inbox, handler, loopHeld, wsDirs, zipFiles, cwdFiles, pinFiles,
                   ytFiles, keyboards, calls, ended>>

\* "No tracks found on Spotify." was delivered: return
NoneReplied(t) ==
    /\ tasks[t].pc = "await_none"
    /\ LoopFree
    /\ Deliver(t, Msg("text", "no_tracks", 0))
    /\ SetTask(t, Ended(tasks[t], "done"))
    /\ UNCHANGED <<nUpd, inbox, handler, loopHeld, wsDirs, zipFiles, cwdFiles, pinFiles,
                   ytFiles, keyboards, calls, ended>>

\* a reply_text or reply_document awaited inside the try block raised
ReplyRaise(t) ==
    /\ tasks[t].pc \in {"await_none", "await_found", "await_allfailed", "await_send",
                        "await_toobig"}
    /\ LoopFree
    /\ SetTask(t, ToErr([tasks[t] EXCEPT !.reportRaised =
                            @ \/ tasks[t].pc \in {"await_allfailed", "await_toobig"}]))
    /\ UNCHANGED <<nUpd, inbox, handler, loopHeld, wsDirs, zipFiles, cwdFiles, pinFiles,
                   ytFiles, keyboards, outbox, calls, ended>>

\* 1 when download_song returned a file, else 0
Downloaded(res) == IF res = "file" THEN 1 ELSE 0

\* the for loop's next iteration: asyncio.to_thread(spotdl_client.download_song, song)
Attempt(r, i) ==
    [r EXCEPT !.pc = "await_dl", !.i = i, !.res = "none", !.tried = Append(@, i)]

\* FoundReplied without the count report of line 136: the loop starts silently
FoundRepliedSilent(t) ==
    /\ tasks[t].pc = "await_found"
    /\ LoopFree
    /\ outbox' = outbox
    /\ LET dir == TempDir(tasks[t].url)
       IN  /\ wsDirs' = MkDir(wsDirs, dir)
           /\ SetTask(t, Attempt([tasks[t] EXCEPT !.temp_dir = dir,
                                                   !.zip_path = ZipPath(tasks[t].name)],
                                  1))
    /\ Called(t)
    /\ UNCHANGED <<nUpd, inbox, handler, loopHeld, zipFiles, cwdFiles, pinFiles, ytFiles,
                   keyboards, ended>>

\* "Found N track(s)" was delivered: lines 138-144, up to the first download's await
FoundReplied(t) ==
    /\ tasks[t].pc = "await_found"
    /\ LoopFree
    /\ Deliver(t, Msg("text", "found", Len(tasks[t].songs)))
    /\ LET dir == TempDir(tasks[t].url)
       IN  /\ wsDirs' = MkDir(wsDirs, dir)
           /\ SetTask(t, Attempt([tasks[t] EXCEPT !.temp_dir = dir,
                                                   !.zip_path = ZipPath(tasks[t].name)],
                                  1))
    /\ Called(t)
    /\ UNCHANGED <<nUpd, inbox, handler, loopHeld, zipFiles, cwdFiles, pinFiles, ytFiles,
                   keyboards, ended>>

\* download_song runs on a worker thread: it writes the track's file and returns
\* its path, or returns no path, or raises
DownloadThread(t) ==
    /\ tasks[t].pc = "await_dl"
    /\ \E out \in DownloadOutcomes :
          /\ SetTask(t, [tasks[t] EXCEPT !.pc = "dl_ready", !.res = out])
          /\ cwdFiles' = IF out = "file"
                         THEN cwdFiles \cup {FileOf(tasks[t].songs[tasks[t].i])}
                         ELSE cwdFiles
    /\ UNCHANGED <<nUpd, inbox, handler, loopHeld, wsDirs, zipFiles, pinFiles, ytFiles,
                   keyboards, outbox, calls, ended>>

\* lines 145-148: the downloaded file is moved into temp_dir when it exists; a
\* rename into a directory that is gone raises, and line 149 swallows that
MoveDownloaded(t) ==
    LET file == FileOf(tasks[t].songs[tasks[t].i])
        dir == tasks[t].temp_dir
    IN  IF tasks[t].res = "file" /\ file \in cwdFiles /\ dir \in DOMAIN wsDirs
        THEN /\ cwdFiles' = cwdFiles \ {file}
             /\ wsDirs' = [wsDirs EXCEPT ![dir] = @ \cup {file}]
        ELSE UNCHANGED <<cwdFiles, wsDirs>>

\* NextSong without the "except: pass" of line 149: a download that raised ends
\* the loop in the outer except clause
NextSongAbort(t) ==
    /\ tasks[t].pc = "dl_ready"
    /\ LoopFree
    /\ tasks[t].i < Len(tasks[t].songs)
    /\ MoveDownloaded(t)
    /\ IF tasks[t].res = "raise"
       THEN /\ SetTask(t, ToErr(tasks[t]))
            /\ calls' = calls
       ELSE /\ SetTask(t, Attempt([tasks[t] EXCEPT !.got = @ + Downloaded(tasks[t].res)],
                                  tasks[t].i + 1))
            /\ Called(t)
    /\ UNCHANGED <<nUpd, inbox, handler, loopHeld, zipFiles, pinFiles, ytFiles, keyboards,
                   outbox, ended>>

\* the download's await returns (or raises into "except: pass") and the loop goes
\* on with the next song
NextSong(t) ==
    /\ tasks[t].pc = "dl_ready"
    /\ LoopFree
    /\ tasks[t].i < Len(tasks[t].songs)
    /\ MoveDownloaded(t)
    /\ SetTask(t, Attempt([tasks[t] EXCEPT !.got = @ + Downloaded(tasks[t].res)],
                          tasks[t].i + 1))
    /\ Called(t)
    /\ UNCHANGED <<nUpd, inbox, handler, loopHeld, zipFiles, pinFiles, ytFiles, keyboards,
                   outbox, ended>>

\* after the last song, line 152: temp_dir.iterdir() raises when the directory is
\* gone; an empty directory leads to the failure report; otherwise the archive
\* is written, on the loop's thread
LastSong(t) ==
    /\ tasks[t].pc = "dl_ready"
    /\ LoopFree
    /\ tasks[t].i = Len(tasks[t].songs)
    /\ MoveDownloaded(t)
    /\ LET r == [tasks[t] EXCEPT !.got = @ + Downloaded(tasks[t].res)]
           dir == tasks[t].temp_dir
       IN  \/ /\ dir \notin DOMAIN wsDirs'
              /\ SetTask(t, ToErr(r))
              /\ loopHeld' = loopHeld
           \/ /\ dir \in DOMAIN wsDirs'
              /\ wsDirs'[dir] = {}
              /\ SetTask(t, [r EXCEPT !.pc = "await_allfailed"])
              /\ loopHeld' = loopHeld
           \/ /\ dir \in DOMAIN wsDirs'
              /\ wsDirs'[dir] # {}
              /\ SetTask(t, [r EXCEPT !.pc = "zipping"])
              /\ loopHeld' = <<"task", t>>
    /\ UNCHANGED <<nUpd, inbox, handler, zipFiles, pinFiles, ytFiles, keyboards, outbox,
                   calls, ended>>

\* lines 158-172: the archive is written and measured, and the size gate picks
\* the send or the report
ZipWrite(t) ==
    /\ tasks[t].pc = "zipping"
    /\ \E size \in ArchiveSizes :
          LET entries == wsDirs[tasks[t].temp_dir]
          IN  /\ zipFiles' = With(zipFiles, tasks[t].zip_path, entries)
              /\ SetTask(t, [tasks[t] EXCEPT
                               !.pc = IF UnderLimit(size) THEN "await_send"
                                      ELSE "await_toobig",
                               !.archive = <<entries>>,
                               !.size = size])
    /\ loopHeld' = <<>>
    /\ UNCHANGED <<nUpd, inbox, handler, wsDirs, cwdFiles, pinFiles, ytFiles, keyboards,
                   outbox, calls, ended>>

\* writing the archive raises (the file was opened for writing, so it exists)
ZipRaise(t) ==
    /\ tasks[t].pc = "zipping"
    /\ zipFiles' = With(zipFiles, tasks[t].zip_path, {})
    /\ SetTask(t, ToErr(tasks[t]))
    /\ loopHeld' = <<>>
    /\ UNCHANGED <<nUpd, inbox, handler, wsDirs, cwdFiles, pinFiles, ytFiles, keyboards,
                   outbox, calls, ended>>

\* "Download failed" was delivered: line 154 and return
AllFailedReplied(t) ==
    /\ tasks[t].pc = "await_allfailed"
    /\ LoopFree
    /\ Deliver(t, Msg("text", "all_failed", 0))
    /\ wsDirs' = RmTree(wsDirs, tasks[t].temp_dir)
    /\ SetTask(t, Ended(tasks[t], "done"))
    /\ UNCHANGED <<nUpd, inbox, handler, loopHeld, zipFiles, cwdFiles, pinFiles, ytFiles,
                   keyboards, calls, ended>>

\* reply_document returned: cleanup
SendDone(t) ==
    /\ tasks[t].pc = "await_send"
    /\ LoopFree
    /\ Deliver(t, Msg("document", "archive", Cardinality(tasks[t].archive[1])))
    /\ Cleanup(t)
    /\ SetTask(t, Ended(tasks[t], "done"))
    /\ UNCHANGED <<nUpd, inbox, handler, loopHeld, cwdFiles, pinFiles, ytFiles, keyboards,
                   calls, ended>>

\* "ZIP is too big (x.y MB)" was delivered: cleanup
TooBigReplied(t) ==
    /\ tasks[t].pc = "await_toobig"
    /\ LoopFree
    /\ Deliver(t, Msg("text", "too_big", FormatTenths(tasks[t].size)))
    /\ Cleanup(t)
    /\ SetTask(t, Ended(tasks[t], "done"))
    /\ UNCHANGED <<nUpd, inbox, handler, loopHeld, cwdFiles, pinFiles, ytFiles, keyboards,
                   calls, ended>>

\* line 179: "Spotify error: ..." was delivered
ErrReplied(t) ==
    /\ tasks[t].pc = "await_err"
    /\ LoopFree
    /\ \E e \in ErrLens : Deliver(t, Msg("text", "spotify_error", Truncate(e, 300)))
    /\ SetTask(t, Ended(tasks[t], "done"))
    /\ UNCHANGED <<nUpd, inbox, handler, loopHeld, wsDirs, zipFiles, cwdFiles, pinFiles,
                   ytFiles, keyboards, calls, ended>>

\* line 179's reply_text raised: the exception leaves the task
ErrReplyRaise(t) ==
    /\ tasks[t].pc = "await_err"
    /\ LoopFree
    /\ SetTask(t, Ended([tasks[t] EXCEPT !.reportRaised = TRUE], "crashed"))
    /\ UNCHANGED <<nUpd, inbox, handler, loopHeld, wsDirs, zipFiles, cwdFiles, pinFiles,
                   ytFiles, keyboards, outbox, calls, ended>>

process_spotify(t) ==
    \/ SpotifySearch(t)
    \/ SearchReturn(t)
    \/ SearchRaise(t)
    \/ NoneReplied(t)
    \/ ReplyRaise(t)
    \/ FoundReplied(t)
    \/ DownloadThread(t)
    \/ NextSong(t)
    \/ LastSong(t)
    \/ ZipWrite(t)
    \/ ZipRaise(t)
    \/ AllFailedReplied(t)
    \/ SendDone(t)
    \/ TooBigReplied(t)
    \/ ErrReplied(t)
    \/ ErrReplyRaise(t)

(***************************************************************************)
(* handle_message                                                          *)
(***************************************************************************)
SetHandler(r) == handler' = r

\* the handler returned (how = "returned") or an exception left it ("raised")
EndHandler(how) ==
    /\ handler' = IdleHandler
    /\ ended' = [ended EXCEPT ![handler.id] = how]

\* lines 194-229 up to the first await: the text is stripped, tested for a scheme
\* and classified, first match first; a text without a scheme is dropped
Receive(text) ==
    /\ handler.pc = "idle"
    /\ LoopFree
    /\ nUpd < MaxUpdates
    /\ nUpd' = nUpd + 1
    /\ inbox' = Append(inbox, [kind |-> "text", text |-> text])
    /\ LET id == nUpd + 1
           h == [IdleHandler EXCEPT !.id = id, !.url = Strip(text), !.hasMessage = TRUE]
           class == ClassOf[text]
       IN  IF class = "ignored"
           THEN /\ handler' = IdleHandler
                /\ ended' = [ended EXCEPT ![id] = "returned"]
           ELSE /\ handler' = [h EXCEPT
                              !.pc = CASE class = "spotify" -> "await_detected"
                                       [] class = "pinterest" -> "await_pin_detected"
                                       [] class = "youtube" -> "await_prompt"
                                       [] OTHER -> "await_text",
                              !.res = IF class = "unsupported" THEN "unsupported"
                                      ELSE "none"]
                /\ ended' = ended
    /\ UNCHANGED <<tasks, loopHeld, wsDirs, zipFiles, cwdFiles, pinFiles, ytFiles,
                   keyboards, outbox, calls>>

\* "Spotify detected" was delivered: line 202 spawns the task and the handler returns
SpotifyDetected ==
    /\ handler.pc = "await_detected"
    /\ LoopFree
    /\ Deliver(handler.id, Msg("text", "spotify_detected", 0))
    /\ SetTask(handler.id, [NoTask EXCEPT !.pc = "start", !.url = handler.url])
    /\ EndHandler("returned")
    /\ UNCHANGED <<nUpd, inbox, loopHeld, wsDirs, zipFiles, cwdFiles, pinFiles, ytFiles,
                   keyboards, calls>>

\* an awaited call to the transport raised in a handler, outside any try block:
\* the exception leaves the handler
HandlerSendRaise ==
    /\ handler.pc \in {"await_detected", "await_pin_detected", "await_pin_send",
                       "await_text", "await_prompt", "await_answer", "await_edit",
                       "await_delete"}
    /\ LoopFree
    /\ EndHandler("raised")
    /\ UNCHANGED <<nUpd, inbox, tasks, loopHeld, wsDirs, zipFiles, cwdFiles, pinFiles,
                   ytFiles, keyboards, outbox, calls>>

\* a reply_text that is the handler's last statement was delivered (lines 216, 229,
\* and line 90 followed by "return None" and line 252)
TextReplied ==
    /\ handler.pc = "await_text"
    /\ LoopFree
    /\ Deliver(handler.id, Msg("text", handler.res, handler.idx))
    /\ IF handler.res = "youtube_failed"
       THEN /\ SetHandler([handler EXCEPT !.pc = "await_delete"])
            /\ ended' = ended
       ELSE EndHandler("returned")
    /\ UNCHANGED <<nUpd, inbox, tasks, loopHeld, wsDirs, zipFiles, cwdFiles, pinFiles,
                   ytFiles, keyboards, calls>>

(***************************************************************************)
(* download_pinterest and the scrape branch of handle_message              *)
(***************************************************************************)
\* what the page fetch and the two resource fetches may do: the page fetch raises or
\* returns a page; the page has a qualifying image or not, a video or not; each
\* resource fetch returns or raises
PinOutcomes ==
    {[page |-> "raise", img |-> "absent", vid |-> "absent"]}
    \cup {[page |-> "ok", img |-> i, vid |-> v] :
            i \in {"absent", "ok", "raise"}, v \in {"absent", "ok", "raise"}}

\* fname = DOWNLOAD_DIR / f"pin_{hash(url)}.jpg" (or .mp4)
PinFile(url, ext) == [hash |-> Hash(url), ext |-> ext]

\* download_pinterest without the except clause's "return None": an exception in a
\* resource fetch returns the media collected before it
download_pinterest_partial(url, o) ==
    LET pageOk == o.page = "ok"
        imgTried == pageOk /\ o.img # "absent"
        imgOk == imgTried /\ o.img = "ok"
        vidTried == pageOk /\ o.img # "raise" /\ o.vid # "absent"
        vidOk == vidTried /\ o.vid = "ok"
    IN  [media |-> (IF imgOk THEN <<PinFile(url, "jpg")>> ELSE <<>>)
                   \o (IF vidOk THEN <<PinFile(url, "mp4")>> ELSE <<>>),
         written |-> (IF imgTried THEN {PinFile(url, "jpg")} ELSE {})
                     \cup (IF vidTried THEN {PinFile(url, "mp4")} ELSE {}),
         fetches |-> 1 + (IF imgTried THEN 1 ELSE 0) + (IF vidTried THEN 1 ELSE 0)]

\* download_pinterest(url) under outcome o: the list it returns (<<>> for None), the
\* files it has created, and the number of HTTP fetches it made.  open(fname, "wb")
\* creates the file before the resource is fetched.
download_pinterest(url, o) ==
    LET pageOk == o.page = "ok"
        imgTried == pageOk /\ o.img # "absent"
        imgOk == imgTried /\ o.img = "ok"
        vidTried == pageOk /\ o.img # "raise" /\ o.vid # "absent"
        vidOk == vidTried /\ o.vid = "ok"
        raised == ~pageOk \/ (imgTried /\ ~imgOk) \/ (vidTried /\ ~vidOk)
        media == (IF imgOk THEN <<PinFile(url, "jpg")>> ELSE <<>>)
                 \o (IF vidOk THEN <<PinFile(url, "mp4")>> ELSE <<>>)
    IN  [media |-> IF raised THEN <<>> ELSE media,
         written |-> (IF imgTried THEN {PinFile(url, "jpg")} ELSE {})
                     \cup (IF vidTried THEN {PinFile(url, "mp4")} ELSE {}),
         fetches |-> 1 + (IF imgTried THEN 1 ELSE 0) + (IF vidTried THEN 1 ELSE 0)]

\* "Pinterest detected" was delivered: download_pinterest is called on the loop's thread
PinDetected ==
    /\ handler.pc = "await_pin_detected"
    /\ LoopFree
    /\ Deliver(handler.id, Msg("text", "pinterest_detected", 0))
    /\ SetHandler([handler EXCEPT !.pc = "pin_fetching"])
    /\ loopHeld' = <<"handler">>
    /\ UNCHANGED <<nUpd, inbox, tasks, wsDirs, zipFiles, cwdFiles, pinFiles, ytFiles,
                   keyboards, calls, ended>>

\* download_pinterest returns: lines 207-216 up to the next await
PinFetched ==
    /\ handler.pc = "pin_fetching"
    /\ \E o \in PinOutcomes :
          LET r == download_pinterest(handler.url, o)
          IN  /\ pinFiles' = pinFiles \cup r.written
              /\ calls' = [calls EXCEPT ![handler.id] = @ + r.fetches]
              /\ SetHandler(IF r.media # <<>>
                            THEN [handler EXCEPT !.pc = "await_pin_send",
                                                 !.files = r.media, !.idx = 1]
                            ELSE [handler EXCEPT !.pc = "await_text",
                                                 !.res = "pinterest_none"])
    /\ loopHeld' = <<>>
    /\ UNCHANGED <<nUpd, inbox, tasks, wsDirs, zipFiles, cwdFiles, ytFiles, keyboards,
                   outbox, ended>>

\* the send-kind without the test of line 209: every file goes out as a photo
PinSendKindPhoto(f) == IF f.ext = "mp4" THEN "photo" ELSE "photo"

\* the send-kind of line 209
PinSendKind(f) == IF f.ext = "mp4" THEN "video" ELSE "photo"

\* a reply_video or reply_photo was delivered: the next file is sent, or, after the
\* last one, lines 213-214 unlink every file
PinSent ==
    /\ handler.pc = "await_pin_send"
    /\ LoopFree
    /\ Deliver(handler.id, Msg(PinSendKind(handler.files[handler.idx]), "pin", handler.idx))
    /\ IF handler.idx < Len(handler.files)
       THEN /\ SetHandler([handler EXCEPT !.idx = @ + 1])
            /\ UNCHANGED <<pinFiles, ended>>
       ELSE /\ pinFiles' = pinFiles \ Range(handler.files)
            /\ EndHandler("returned")
    /\ UNCHANGED <<nUpd, inbox, tasks, loopHeld, wsDirs, zipFiles, cwdFiles, ytFiles,
                   keyboards, calls>>

(***************************************************************************)
(* The format prompt, button_callback and download_youtube                 *)
(***************************************************************************)
\* callback_data=f"yt|{fmt}|{url}"
CallbackData(fmt, url) == YtPrefix \o fmt \o <<"|">> \o url

\* Split without maxsplit: s.split(sep) cuts at every separator
RECURSIVE SplitAll(_, _, _)
SplitAll(s, sep, maxsplit) ==
    LET at == FindAny(s, {sep}, 1)
    IN  IF at = 0 THEN <<s>>
        ELSE <<SubSeq(s, 1, at - 1)>> \o SplitAll(SubSeq(s, at + 1, Len(s)), sep, maxsplit)

\* s.split(sep, maxsplit): at most maxsplit cuts, from the left
RECURSIVE Split(_, _, _)
Split(s, sep, maxsplit) ==
    LET at == FindAny(s, {sep}, 1)
    IN  IF maxsplit = 0 \/ at = 0 THEN <<s>>
        ELSE <<SubSeq(s, 1, at - 1)>> \o Split(SubSeq(s, at + 1, Len(s)), sep, maxsplit - 1)

\* PromptReplied with an eager download: the extraction starts with the prompt
PromptRepliedEager ==
    /\ handler.pc = "await_prompt"
    /\ LoopFree
    /\ Deliver(handler.id, Msg("text", "choose_format", 0))
    /\ keyboards' = keyboards \cup {CallbackData(Mp3, handler.url),
                                    CallbackData(Mp4, handler.url)}
    /\ SetHandler([handler EXCEPT !.pc = "await_extract", !.fmt = Mp4])
    /\ Called(handler.id)
    /\ UNCHANGED <<nUpd, inbox, tasks, loopHeld, wsDirs, zipFiles, cwdFiles, pinFiles,
                   ytFiles, ended>>

\* "YouTube detected -> choose format" was delivered with its two buttons
PromptReplied ==
    /\ handler.pc = "await_prompt"
    /\ LoopFree
    /\ Deliver(handler.id, Msg("text", "choose_format", 0))
    /\ keyboards' = keyboards \cup {CallbackData(Mp3, handler.url),
                                    CallbackData(Mp4, handler.url)}
    /\ EndHandler("returned")
    /\ UNCHANGED <<nUpd, inbox, tasks, loopHeld, wsDirs, zipFiles, cwdFiles, pinFiles,
                   ytFiles, calls>>

\* a button is pressed: button_callback starts and awaits query.answer().  The
\* update of a button press carries callback_query and no message.
ReceiveCallback(data) ==
    /\ handler.pc = "idle"
    /\ LoopFree
    /\ nUpd < MaxUpdates
    /\ nUpd' = nUpd + 1
    /\ inbox' = Append(inbox, [kind |-> "button", text |-> data])
    /\ SetHandler([IdleHandler EXCEPT !.id = nUpd + 1, !.pc = "await_answer",
                                      !.data = data, !.hasMessage = FALSE])
    /\ UNCHANGED <<tasks, loopHeld, wsDirs, zipFiles, cwdFiles, pinFiles, ytFiles,
                   keyboards, outbox, calls, ended>>

\* query.answer() returned: lines 235-240; unpacking fewer than three parts raises
Answered ==
    /\ handler.pc = "await_answer"
    /\ LoopFree
    /\ LET parts == Split(handler.data, "|", 2)
       IN  IF ~StartsWith(handler.data, YtPrefix)
           THEN EndHandler("returned")
           ELSE IF Len(parts) # 3
           THEN EndHandler("raised")
           ELSE /\ SetHandler([handler EXCEPT !.pc = "await_edit", !.fmt = parts[2],
                                              !.url = parts[3]])
                /\ ended' = ended
    /\ UNCHANGED <<nUpd, inbox, tasks, loopHeld, wsDirs, zipFiles, cwdFiles, pinFiles,
                   ytFiles, keyboards, outbox, calls>>

\* "Downloading as ..." was shown: download_youtube starts the extraction on a
\* worker thread (lines 65-84)
Edited ==
    /\ handler.pc = "await_edit"
    /\ LoopFree
    /\ SetHandler([handler EXCEPT !.pc = "await_extract"])
    /\ Called(handler.id)
    /\ UNCHANGED <<nUpd, inbox, tasks, loopHeld, wsDirs, zipFiles, cwdFiles, pinFiles,
                   ytFiles, keyboards, outbox, ended>>

\* the file the extraction leaves: <title>.mp3 after the audio post-processor,
\* else <title>.<container>
YtFile(fmt, container) == [title |-> "v", ext |-> IF fmt = Mp3 THEN Mp3 ELSE container]

\* lines 85-88: prepare_filename names <title>.<container>; for mp3 the extension
\* is replaced
ReturnedPath(fmt, container) ==
    [title |-> "v", ext |-> IF fmt = Mp3 THEN Mp3 ELSE container]

\* the containers the extraction may pick
Containers == {Mp4, <<"w","e","b","m">>}

\* extract_info runs on a worker thread: it writes the file or raises
ExtractThread ==
    /\ handler.pc = "await_extract"
    /\ \/ \E c \in Containers :
             /\ ytFiles' = ytFiles \cup {YtFile(handler.fmt, c)}
             /\ SetHandler([handler EXCEPT !.pc = "extract_ready", !.res = "ok",
                                           !.file_path = ReturnedPath(handler.fmt, c)])
       \/ /\ ytFiles' = ytFiles
          /\ SetHandler([handler EXCEPT !.pc = "extract_ready", !.res = "raise"])
    /\ UNCHANGED <<nUpd, inbox, tasks, loopHeld, wsDirs, zipFiles, cwdFiles, pinFiles,
                   keyboards, outbox, calls, ended>>

\* update.message.reply_text(...) of line 90: update.message is None when the
\* update is a button press, and the attribute access raises
CanReplyToMessage(h) == h.hasMessage

\* ExtractResume with a retry: a failed extraction is started again
ExtractResumeRetry ==
    /\ handler.pc = "extract_ready"
    /\ LoopFree
    /\ IF handler.res = "ok"
       THEN SetHandler([handler EXCEPT !.pc = "await_yt_send"])
       ELSE SetHandler([handler EXCEPT !.pc = "await_extract", !.res = "none"])
    /\ UNCHANGED <<nUpd, inbox, tasks, loopHeld, wsDirs, zipFiles, cwdFiles, pinFiles,
                   ytFiles, keyboards, outbox, calls, ended>>

\* the extraction's await returns: the path goes back to button_callback, which
\* sends it (lines 243-248); or it raised and line 90 reports str(e)[:200]
ExtractResume ==
    /\ handler.pc = "extract_ready"
    /\ LoopFree
    /\ IF handler.res = "ok"
       THEN /\ SetHandler([handler EXCEPT !.pc = "await_yt_send"])
            /\ ended' = ended
       ELSE IF CanReplyToMessage(handler)
       THEN /\ \E e \in ErrLens :
                  SetHandler([handler EXCEPT !.pc = "await_text",
                                             !.res = "youtube_failed",
                                             !.idx = Truncate(e, 200)])
            /\ ended' = ended
       ELSE EndHandler("raised")
    /\ UNCHANGED <<nUpd, inbox, tasks, loopHeld, wsDirs, zipFiles, cwdFiles, pinFiles,
                   ytFiles, keyboards, outbox, calls>>

\* reply_audio / reply_video was delivered; the finally clause unlinks the file and
\* line 252 deletes the prompt message
YtSent ==
    /\ handler.pc = "await_yt_send"
    /\ LoopFree
    /\ Deliver(handler.id, Msg(IF handler.fmt = Mp3 THEN "audio" ELSE "video", "yt", 0))
    /\ ytFiles' = ytFiles \ {handler.file_path}
    /\ SetHandler([handler EXCEPT !.pc = "await_delete"])
    /\ UNCHANGED <<nUpd, inbox, tasks, loopHeld, wsDirs, zipFiles, cwdFiles, pinFiles,
                   keyboards, calls, ended>>

\* YtSendRaise without the finally clause of line 249: the file stays
YtSendRaiseNoFinally ==
    /\ handler.pc = "await_yt_send"
    /\ LoopFree
    /\ ytFiles' = ytFiles
    /\ EndHandler("raised")
    /\ UNCHANGED <<nUpd, inbox, tasks, loopHeld, wsDirs, zipFiles, cwdFiles, pinFiles,
                   keyboards, outbox, calls>>

\* reply_audio / reply_video raised: the finally clause unlinks the file and the
\* exception leaves the handler
YtSendRaise ==
    /\ handler.pc = "await_yt_send"
    /\ LoopFree
    /\ ytFiles' = ytFiles \ {handler.file_path}
    /\ EndHandler("raised")
    /\ UNCHANGED <<nUpd, inbox, tasks, loopHeld, wsDirs, zipFiles, cwdFiles, pinFiles,
                   keyboards, outbox, calls>>

\* query.message.delete() returned
Deleted ==
    /\ handler.pc = "await_delete"
    /\ LoopFree
    /\ EndHandler("returned")
    /\ UNCHANGED <<nUpd, inbox, tasks, loopHeld, wsDirs, zipFiles, cwdFiles, pinFiles,
                   ytFiles, keyboards, outbox, calls>>

handle_message ==
    \/ \E text \in Texts : Receive(text)
    \/ SpotifyDetected
    \/ PinDetected
    \/ PinFetched
    \/ PinSent
    \/ PromptReplied
    \/ TextReplied
    \/ HandlerSendRaise

button_callback ==
    \/ \E data \in keyboards : ReceiveCallback(data)
    \/ Answered
    \/ Edited
    \/ ExtractThread
    \/ ExtractResume
    \/ YtSent
    \/ YtSendRaise
    \/ Deleted

(***************************************************************************)
(* The program.                                                            *)
(***************************************************************************)
Next ==
    \/ handle_message
    \/ button_callback
    \/ \E t \in Ids : process_spotify(t)

Spec == Init /\ [][Next]_vars

\* the batch pipeline of one request, run alone
BatchTexts == {text \in Texts : ClassOf[text] = "spotify"}

NextBatch ==
    \/ \E text \in BatchTexts : nUpd = 0 /\ Receive(text)
    \/ SpotifyDetected
    \/ HandlerSendRaise
    \/ \E t \in Ids : process_spotify(t)

SpecBatch == Init /\ [][NextBatch]_vars

\* the handlers without the batch pipeline: one request after the other
NextHandlers ==
    \/ \E text \in Texts \ BatchTexts : Receive(text)
    \/ PinDetected
    \/ PinFetched
    \/ PinSent
    \/ PromptReplied
    \/ TextReplied
    \/ HandlerSendRaise
    \/ button_callback

SpecHandlers == Init /\ [][NextHandlers]_vars


\* the classification and the first steps of every branch, over the URLs of
\* OverlapTexts, a URL of the third platform alone and a URL of no platform; a
\* spawned batch task is left at its start
RoutingTexts == OverlapTexts \cup {UrlTube, TextOther}

NextRouting ==
    \/ \E text \in RoutingTexts : Receive(text)
    \/ SpotifyDetected
    \/ PinDetected
    \/ PinFetched
    \/ PinSent
    \/ PromptReplied
    \/ TextReplied
    \/ HandlerSendRaise

SpecRouting == Init /\ [][NextRouting]_vars

\* the format prompt and the button flow, over URLs of the third platform with and
\* without the delimiter, and over button payloads of any origin
NextButtons ==
    \/ \E text \in TubeTexts : Receive(text)
    \/ PromptReplied
    \/ HandlerSendRaise
    \/ \E data \in keyboards \cup ForeignPayloads : ReceiveCallback(data)
    \/ Answered
    \/ Edited
    \/ ExtractThread
    \/ ExtractResume
    \/ YtSent
    \/ YtSendRaise
    \/ Deleted

SpecButtons == Init /\ [][NextButtons]_vars

\* the three pipelines with one request served at a time, over one URL of each
\* platform and at most one batch: an update is taken only when no handler is
\* running and every spawned task has ended
SerialTexts == {UrlList, UrlPin, UrlTube}

Quiet == \A t \in Ids : tasks[t].pc \in {"none", "done", "crashed"}

\* no batch task has been spawned or is about to be
NoBatchYet == handler.pc # "await_detected" /\ \A t \in Ids : tasks[t].pc = "none"

NextSerial ==
    \/ \E text \in SerialTexts :
          Quiet /\ (ClassOf[text] = "spotify" => NoBatchYet) /\ Receive(text)
    \/ \E data \in keyboards : Quiet /\ ReceiveCallback(data)
    \/ SpotifyDetected
    \/ PinDetected
    \/ PinFetched
    \/ PinSent
    \/ PromptReplied
    \/ TextReplied
    \/ HandlerSendRaise
    \/ Answered
    \/ Edited
    \/ ExtractThread
    \/ ExtractResume
    \/ YtSent
    \/ YtSendRaise
    \/ Deleted
    \/ \E t \in Ids : process_spotify(t)

SpecSerial == Init /\ [][NextSerial]_vars

(***************************************************************************)
(* The batch and the single-item pipelines under fair scheduling: every    *)
(* collaborator call returns or raises, the transport answers every        *)
(* awaited call, and the event loop runs every coroutine that is ready.    *)
(* Inbound updates are not obliged to arrive.  One batch task runs         *)
(* concurrently with the handlers of the other updates.                    *)
(***************************************************************************)
LiveTexts == {UrlList, UrlTube}

\* the steps of the handler that is running
HandlerStep ==
    \/ SpotifyDetected
    \/ PromptReplied
    \/ Answered
    \/ Edited
    \/ ExtractThread
    \/ ExtractResume
    \/ YtSent
    \/ Deleted

NextLive ==
    \/ \E text \in LiveTexts : (ClassOf[text] = "spotify" => NoBatchYet) /\ Receive(text)
    \/ HandlerSendRaise
    \/ YtSendRaise
    \/ \E data \in keyboards : ReceiveCallback(data)
    \/ HandlerStep
    \/ \E t \in Ids : process_spotify(t)

Fairness ==
    /\ WF_vars(HandlerStep)
    /\ \A t \in Ids : WF_vars(process_spotify(t))

SpecLive == Init /\ [][NextLive]_vars /\ Fairness

(***************************************************************************)
(* Vocabulary of the properties.                                           *)
(***************************************************************************)
\* the task was spawned and has neither returned nor crashed
TaskActive(t) == tasks[t].pc \notin {"none", "done", "crashed"}

TaskEnded(t) == tasks[t].pc \in {"done", "crashed"}

\* the task got as far as line 139
WorkspaceCreated(t) == tasks[t].temp_dir # -1

\* the task's for loop is over
LoopOver(t) ==
    \/ tasks[t].pc \in {"await_allfailed", "zipping", "await_send", "await_toobig"}
    \/ tasks[t].pc = "await_err" /\ tasks[t].tried # <<>>

\* the step from the unprimed to the primed state ends task t
Ends(t) == ~TaskEnded(t) /\ tasks'[t].pc \in {"done", "crashed"}

(***************************************************************************)
(* C1.  Batch cleanup on every exit path: when a batch request that has    *)
(* created its workspace ends, neither its workspace directory nor its     *)
(* archive file is left on transient storage.                              *)
(* The code runs its cleanup lines only after a send or a size report that *)
(* returned; every exception after line 139 skips them.                    *)
(***************************************************************************)
C1_CleanupOnEveryExit ==
    [][\A t \in Ids :
          Ends(t) /\ WorkspaceCreated(t)
          => /\ tasks[t].temp_dir \notin DOMAIN wsDirs'
             /\ tasks[t].zip_path \notin DOMAIN zipFiles']_vars

(***************************************************************************)
(* C2.  No two requests that are active at the same time share a workspace *)
(* directory or an output file name.                                       *)
(* The code names the workspace after hash(url) and the archive after the  *)
(* artist or the literal "Playlist", so two requests for one URL, or for   *)
(* two playlists, share them.                                              *)
(***************************************************************************)
\* the paths request id is using
PathsOf(id) ==
    (IF TaskActive(id) /\ WorkspaceCreated(id)
     THEN {<<"dir", tasks[id].temp_dir>>, <<"zip", tasks[id].zip_path>>}
     ELSE {})
    \cup (IF handler.id = id /\ handler.pc \in {"await_pin_send"}
          THEN {<<"pin", f.hash, f.ext>> : f \in Range(handler.files)}
          ELSE {})

C2_NoSharedPaths ==
    \A a, b \in Ids : a # b => PathsOf(a) \cap PathsOf(b) = {}

(***************************************************************************)
(* C3.  Batch property: with N descriptors resolved and K of them failing  *)
(* to download, the archive the request builds has exactly N-K entries     *)
(* when N-K >= 1, and no archive is built when N-K = 0.                    *)
(* The archive holds whatever the workspace holds: files an earlier or a   *)
(* concurrent request for the same URL left there, and one file for two    *)
(* descriptors that download to the same name.                             *)
(***************************************************************************)
C3_ArchiveHoldsTheSuccesses ==
    \A t \in Ids :
       /\ tasks[t].pc = "zipping" => tasks[t].got >= 1
       /\ tasks[t].archive # <<>>
          => /\ tasks[t].got >= 1
             /\ Cardinality(tasks[t].archive[1]) = tasks[t].got

(***************************************************************************)
(* C4.  Size gate: the archive is sent only when its measured size is      *)
(* below 48 MB; an archive measured at 48 MB or more is never sent, its    *)
(* size is reported in one text with one decimal place, and the archive    *)
(* is discarded.                                                           *)
(* The gate and the report are as claimed; the discard is not: when the    *)
(* report raises, the cleanup lines are skipped (see C10) and the archive  *)
(* stays on disk.                                                          *)
(***************************************************************************)
\* the messages of the given kind that reached the requester of update id
Sent(box, kind) == {i \in 1..Len(box) : box[i].kind = kind}

C4_SizeGate ==
    [][\A t \in Ids :
          /\ tasks'[t].pc = "await_send" => UnderLimit(tasks'[t].size)
          /\ Ends(t) /\ tasks[t].archive # <<>> /\ ~UnderLimit(tasks[t].size)
             => /\ Sent(outbox'[t], "document") = {}
                /\ \E i \in 1..Len(outbox'[t]) :
                      outbox'[t][i] = Msg("text", "too_big", FormatTenths(tasks[t].size))
                /\ tasks[t].zip_path \notin DOMAIN zipFiles']_vars

(***************************************************************************)
(* C5.  Scrape cleanup: every file the scrape downloader wrote for a       *)
(* request is deleted by the time the request is over, on every exit path. *)
(* Handlers run one at a time, so when no scrape request is being handled  *)
(* no pin file may exist.  The code unlinks only after every send has      *)
(* returned, and only the files download_pinterest returned.               *)
(***************************************************************************)
ScrapeInFlight == handler.pc \in {"await_pin_detected", "pin_fetching", "await_pin_send"}

C5_ScrapeCleanup == ~ScrapeInFlight /\ handler.res # "pinterest_none" => pinFiles = {}

(***************************************************************************)
(* C6.  The event loop is never blocked by a pipeline's blocking I/O:      *)
(* while a request is resolving, fetching, extracting or archiving, the    *)
(* loop is free to run another coroutine.                                  *)
(* Only download_song and extract_info are handed to a worker thread; the  *)
(* search, the scrape's HTTP fetches and the archive write run on the      *)
(* loop's own thread.                                                      *)
(***************************************************************************)
InBlockingIO ==
    \/ \E t \in Ids : tasks[t].pc \in {"searching", "await_dl", "zipping"}
    \/ handler.pc \in {"pin_fetching", "await_extract"}

C6_LoopNeverBlocked == InBlockingIO => LoopFree

(***************************************************************************)
(* C7.  Classification miss.  As claimed: every text without an http:// or *)
(* https:// prefix, and every URL of no known platform, ends with exactly  *)
(* one text reply and no collaborator call.                                *)
(* The code returns at line 196 without any reply for a text that has no   *)
(* scheme.                                                                 *)
(***************************************************************************)
\* the modelled texts that do not begin with http:// or https:// once stripped
NoSchemeTexts ==
    {text \in Texts : ~(StartsWith(Strip(text), Http) \/ StartsWith(Strip(text), Https))}

\* the modelled URLs whose host is that of no platform
NoPlatformTexts ==
    {text \in Texts \ NoSchemeTexts :
        /\ ~Contains(NetLoc(Strip(text)), NeedleSpotify)
        /\ \A needle \in {NeedlePinterest, NeedlePinIt, NeedleYoutube, NeedleYoutuBe} :
              ~Contains(Lower(NetLoc(Strip(text))), needle)}

\* the handler of update id is over, and so is the task it spawned, if any
RequestOver(id) == ended[id] # "no" /\ ~TaskActive(id)

TextUpdates(S) == {id \in 1..nUpd : inbox[id].kind = "text" /\ inbox[id].text \in S}

C8_ExtractionFailureReported ==
    [][handler.pc = "extract_ready" /\ handler.res = "raise" /\ handler' # handler
       => /\ handler'.pc = "await_text"
          /\ handler'.res = "youtube_failed"
          /\ handler'.idx <= 200
          /\ ended'[handler.id] # "raised"]_vars

(***************************************************************************)
(* C9.  A per-track failure never aborts the batch: the descriptors are    *)
(* attempted one by one in resolved order, each once, and once the first   *)
(* has been attempted the loop ends only after the last one, whatever the  *)
(* earlier downloads did.                                                  *)
(***************************************************************************)
C9_EveryTrackAttempted ==
    \A t \in Ids :
       /\ Len(tasks[t].tried) <= Len(tasks[t].songs)
       /\ \A k \in 1..Len(tasks[t].tried) : tasks[t].tried[k] = k
       /\ tasks[t].pc \in {"await_dl", "dl_ready"} => tasks[t].i = Len(tasks[t].tried)
       /\ LoopOver(t) => Len(tasks[t].tried) = Len(tasks[t].songs)

\* a batch of two whose downloads both failed, the second by raising, and whose loop
\* is over
C9_Witness ==
    \E t \in Ids :
       /\ tasks[t].pc = "await_allfailed"
       /\ tasks[t].res = "raise"
       /\ tasks[t].got = 0
       /\ tasks[t].tried = <<1, 2>>

(***************************************************************************)
(* C10.  Cleanup still happens when reporting fails: when the all-failed   *)
(* report, the too-big report or the generic error report raised, the      *)
(* request's workspace and archive are deleted by the time it ends.        *)
(* The cleanup lines come after the reports inside the try block, and the  *)
(* except clause has none.                                                 *)
(***************************************************************************)
C10_CleanupWhenReportFails ==
    [][\A t \in Ids :
          Ends(t) /\ WorkspaceCreated(t) /\ tasks'[t].reportRaised
          => /\ tasks[t].temp_dir \notin DOMAIN wsDirs'
             /\ tasks[t].zip_path \notin DOMAIN zipFiles']_vars

(***************************************************************************)
(* C11.  Single-item cleanup: whenever download_youtube returned a path,   *)
(* the file at that path is gone once the send attempt is over, whether    *)
(* reply_audio / reply_video returned or raised; and outside a button      *)
(* request that is between its extraction and its send no extracted file   *)
(* exists.                                                                 *)
(***************************************************************************)
\* a button request holds an extracted file it has not tried to send yet
ExtractedUnsent == handler.pc \in {"extract_ready", "await_yt_send"} /\ handler.res = "ok"

C11_SingleItemCleanup ==
    /\ [][handler.pc = "await_yt_send" /\ handler' # handler
          => handler.file_path \notin ytFiles']_vars
    /\ [](~ExtractedUnsent => ytFiles = {})

\* the send of an extracted audio file returned and the file is gone
C11_Witness ==
    /\ handler.pc = "await_delete"
    /\ handler.res = "ok"
    /\ handler.fmt = Mp3
    /\ handler.file_path \notin ytFiles
    /\ outbox[handler.id] = <<Msg("audio", "yt", 0)>>

(***************************************************************************)
(* C12.  Empty resolution is terminal: a task whose search returned no     *)
(* descriptor has made one collaborator call (the search) and has neither  *)
(* a workspace, a download attempt, an archive nor any message beyond      *)
(* "Spotify detected"; its next step delivers the one failure text "No     *)
(* tracks found" and returns, and nothing else changes.  When the          *)
(* transport raises on that reply_text, the except clause of line 178      *)
(* makes the one report instead ("Spotify error"), and the task ends with  *)
(* that report or, when it raises as well, with none.                      *)
(***************************************************************************)
\* task t has no descriptor and has not ended: its search returned the empty list
\* (a search that raised leaves songs empty as well and is reported the same way)
EmptyResolution(t) ==
    /\ tasks[t].songs = <<>>
    /\ \/ tasks[t].pc = "await_none"
       \/ tasks[t].pc = "await_err" /\ calls[t] = 1

\* no count report, no workspace, no download attempt, no archive, nothing sent
NothingFurther(t) ==
    /\ tasks[t].temp_dir = -1
    /\ tasks[t].zip_path = <<>>
    /\ tasks[t].tried = <<>>
    /\ tasks[t].archive = <<>>
    /\ calls[t] = 1
    /\ \A i \in 1..Len(outbox[t]) :
          /\ outbox[t][i].kind = "text"
          /\ outbox[t][i].tag \in {"spotify_detected", "no_tracks", "spotify_error"}

C12_EmptyResolutionTerminal ==
    /\ [](\A t \in Ids : EmptyResolution(t) => NothingFurther(t) /\ Len(outbox[t]) = 1)
    /\ [][\A t \in Ids :
             EmptyResolution(t) /\ tasks'[t] # tasks[t]
             => /\ UNCHANGED <<wsDirs, zipFiles, cwdFiles, calls>>
                /\ tasks'[t].temp_dir = -1
                /\ \/ /\ tasks[t].pc = "await_none"
                      /\ tasks'[t].pc = "done"
                      /\ outbox'[t] = Append(outbox[t], Msg("text", "no_tracks", 0))
                   \/ /\ tasks[t].pc = "await_none"
                      /\ tasks'[t].pc = "await_err"
                      /\ outbox'[t] = outbox[t]
                   \/ /\ tasks[t].pc = "await_err"
                      /\ tasks'[t].pc = "done"
                      /\ Len(outbox'[t]) = 2
                      /\ outbox'[t][2].tag = "spotify_error"
                   \/ /\ tasks[t].pc = "await_err"
                      /\ tasks'[t].pc = "crashed"
                      /\ outbox'[t] = outbox[t]]_vars

\* an empty resolution was reported and the task returned without a workspace
C12_Witness ==
    \E t \in Ids :
       /\ tasks[t].pc = "done"
       /\ tasks[t].temp_dir = -1
       /\ calls[t] = 1
       /\ outbox[t] = <<Msg("text", "spotify_detected", 0), Msg("text", "no_tracks", 0)>>

(***************************************************************************)
(* C13.  Scrape never crashes: every exception of the page fetch or of a   *)
(* resource fetch makes download_pinterest return the zero result, as does *)
(* a page with neither a qualifying image nor a video; the return of       *)
(* download_pinterest never ends the handler with an exception; and on the *)
(* zero result the handler's one remaining step is the reply_text "Could   *)
(* not download Pinterest media", delivered once, with no photo and no     *)
(* video sent (when the transport raises on that reply_text, nothing is    *)
(* delivered).                                                             *)
(***************************************************************************)
\* an exception is raised somewhere in download_pinterest under outcome o
ScrapeRaises(o) ==
    \/ o.page = "raise"
    \/ o.img = "raise"
    \/ o.vid = "raise"

\* the page has neither a qualifying image nor a video
ScrapeNoMedia(o) == o.page = "ok" /\ o.img = "absent" /\ o.vid = "absent"

ScrapeTexts == {text \in Texts : ClassOf[text] = "pinterest"}

ZeroResultPending == handler.pc = "await_text" /\ handler.res = "pinterest_none"

C13_ScrapeNeverCrashes ==
    /\ [](\A text \in ScrapeTexts : \A o \in PinOutcomes :
             ScrapeRaises(o) \/ ScrapeNoMedia(o)
             => download_pinterest(Strip(text), o).media = <<>>)
    /\ [](ZeroResultPending
          => outbox[handler.id] = <<Msg("text", "pinterest_detected", 0)>>)
    /\ [][handler.pc = "pin_fetching" /\ handler' # handler
          => /\ ended' = ended
             /\ handler'.pc \in {"await_pin_send", "await_text"}
             /\ handler'.pc = "await_text" => handler'.res = "pinterest_none"
             /\ handler'.pc = "await_pin_send" => handler'.files # <<>>]_vars
    /\ [][ZeroResultPending /\ handler' # handler
          => \/ /\ ended'[handler.id] = "returned"
                /\ outbox'[handler.id] = <<Msg("text", "pinterest_detected", 0),
                                           Msg("text", "pinterest_none", 0)>>
             \/ /\ ended'[handler.id] = "raised"
                /\ outbox'[handler.id] = outbox[handler.id]]_vars

\* a scrape whose video fetch raised after the image was fetched ended with the one
\* "could not download" text
C13_Witness ==
    \E id \in 1..nUpd :
       /\ inbox[id].kind = "text"
       /\ inbox[id].text \in ScrapeTexts
       /\ ended[id] = "returned"
       /\ calls[id] = 3
       /\ outbox[id] = <<Msg("text", "pinterest_detected", 0),
                         Msg("text", "pinterest_none", 0)>>

(***************************************************************************)
(* C14.  Every started pipeline terminates: under fair scheduling, every   *)
(* request that was received is eventually over: its handler has returned  *)
(* or raised, and the batch task it spawned, if any, has returned or was   *)
(* left by an exception; and a request ends as Done (its artifact was      *)
(* dispatched and it returned) only with its cleanup done: the batch's     *)
(* workspace and archive, and the single item's file, are gone at that     *)
(* step.                                                                   *)
(***************************************************************************)
\* the step delivers a message of the given kind to the requester of update id
Delivers(id, kind) ==
    /\ Len(outbox'[id]) = Len(outbox[id]) + 1
    /\ outbox'[id][Len(outbox'[id])].kind = kind

C14_EveryPipelineTerminates ==
    /\ \A id \in Ids : nUpd >= id ~> RequestOver(id)
    /\ [][\A t \in Ids :
             Ends(t) /\ tasks'[t].pc = "done" /\ Delivers(t, "document")
             => /\ tasks[t].temp_dir \notin DOMAIN wsDirs'
                /\ tasks[t].zip_path \notin DOMAIN zipFiles']_vars
    /\ [][handler.pc = "await_delete" /\ handler.res = "ok"
          /\ ended'[handler.id] = "returned"
          => handler.file_path \notin ytFiles']_vars

\* a batch of two tracks sent its archive and ended with its workspace and
\* archive gone
C14_Witness ==
    \E t \in Ids :
       /\ tasks[t].pc = "done"
       /\ calls[t] = 3
       /\ Sent(outbox[t], "document") # {}
       /\ tasks[t].temp_dir \notin DOMAIN wsDirs
       /\ tasks[t].zip_path \notin DOMAIN zipFiles

(***************************************************************************)
(* C15.  Classification is a deterministic total function of the URL's     *)
(* host with fixed priority: a URL whose host holds the first platform's   *)
(* domain takes the batch branch whatever else it holds; otherwise one     *)
(* whose host holds a domain of the second platform takes the scrape       *)
(* branch; otherwise one whose host holds a domain of the third platform   *)
(* gets the format prompt; otherwise it is unsupported; and every URL      *)
(* takes exactly one of the four branches, the same one each time it is    *)
(* sent.  A platform's domain in the path does not count.                  *)
(***************************************************************************)
\* the branch the claim gives a URL
BranchByPriority(url) ==
    CASE is_spotify_url(url) -> "batch"
      [] ~is_spotify_url(url) /\ is_pinterest_url(url) -> "scrape"
      [] ~is_spotify_url(url) /\ ~is_pinterest_url(url) /\ is_youtube_url(url) -> "prompt"
      [] OTHER -> "unsupported"

\* the branches the state shows the request of update id to have taken
BranchesTaken(id) ==
    LET first == IF outbox[id] = <<>> THEN "nothing" ELSE outbox[id][1].tag
        here == IF handler.id = id THEN handler.pc ELSE "elsewhere"
    IN  (IF \/ first = "spotify_detected"
            \/ here = "await_detected"
            \/ tasks[id].pc # "none"
         THEN {"batch"} ELSE {})
        \cup (IF \/ first = "pinterest_detected"
                 \/ here \in {"await_pin_detected", "pin_fetching", "await_pin_send"}
                 \/ calls[id] > 0 /\ tasks[id].pc = "none"
              THEN {"scrape"} ELSE {})
        \cup (IF first = "choose_format" \/ here = "await_prompt"
              THEN {"prompt"} ELSE {})
        \cup (IF \/ first = "unsupported"
                 \/ here = "await_text" /\ handler.res = "unsupported"
              THEN {"unsupported"} ELSE {})

\* the text updates that passed the scheme test of line 195
UrlUpdates ==
    {id \in 1..nUpd : inbox[id].kind = "text" /\ inbox[id].text \notin NoSchemeTexts}

\* BranchByPriority, tabulated over the modelled inbound texts
BranchOf ==
    [text \in Texts \cup OverlapTexts \cup TubeTexts |-> BranchByPriority(Strip(text))]

C15_ClassificationPriority ==
    \A id \in UrlUpdates :
       /\ BranchesTaken(id) \subseteq {BranchOf[inbox[id].text]}
       /\ handler.id = id \/ outbox[id] # <<>>
          => BranchesTaken(id) = {BranchOf[inbox[id].text]}

\* a URL whose host holds the domains of the first and the second platform took the
\* batch branch, and one that holds those of the second and the third took the scrape
C15_Witness ==
    \E a, b \in UrlUpdates :
       /\ inbox[a].text = UrlSpotPin
       /\ tasks[a].pc = "start"
       /\ inbox[b].text = UrlPinTube
       /\ handler.id = b
       /\ handler.pc = "pin_fetching"

(***************************************************************************)
(* C16.  Within one batch request the "Found N track(s)" report reaches    *)
(* the requester before the first track download is attempted, and N is    *)
(* the number of resolved descriptors: a task that has attempted a         *)
(* download (a second collaborator call after the search) has exactly one  *)
(* count report in its outbox, right after "Spotify detected", and while   *)
(* the task runs its N is the length of the resolved list.                 *)
(***************************************************************************)
\* the positions of the count reports in the outbox of update id
CountReports(id) == {i \in 1..Len(outbox[id]) : outbox[id][i].tag = "found"}

C16_CountBeforeDownloads ==
    \A t \in Ids :
       /\ calls[t] >= 2 /\ tasks[t].pc # "none" => CountReports(t) = {2}
       /\ tasks[t].tried # <<>>
          => outbox[t][2] = Msg("text", "found", Len(tasks[t].songs))
       /\ CountReports(t) # {} /\ TaskActive(t)
          => /\ outbox[t][2].arg = Len(tasks[t].songs)
             /\ outbox[t][2].arg >= 1

\* the first download of a batch of two is running and "Found 2" has been delivered
C16_Witness ==
    \E t \in Ids :
       /\ tasks[t].pc = "await_dl"
       /\ tasks[t].tried = <<1>>
       /\ outbox[t] = <<Msg("text", "spotify_detected", 0), Msg("text", "found", 2)>>

(***************************************************************************)
(* C17.  Button-event round trip: for each format of {mp3, mp4} and each   *)
(* URL, also one that holds the delimiter "|", splitting the payload       *)
(* "yt|<format>|<URL>" at its first two delimiters gives back "yt", that   *)
(* format and that URL; a button handler that has decoded a payload of one *)
(* of the program's own buttons holds the format of the button and the URL *)
(* of the message the prompt answered; and a payload that does not start   *)
(* with "yt|" leads to no collaborator call and no send.                   *)
(***************************************************************************)
Formats == {Mp3, Mp4}

\* the button handler has decoded its payload (line 239 is behind it)
Decoded == handler.pc \in {"await_edit", "await_extract", "extract_ready", "await_yt_send"}

\* the button updates whose payload does not start with "yt|"
ForeignUpdates ==
    {id \in 1..nUpd : inbox[id].kind = "button" /\ ~StartsWith(inbox[id].text, YtPrefix)}

C17_ButtonRoundTrip ==
    /\ \A fmt \in Formats : \A text \in TubeTexts :
          Split(CallbackData(fmt, Strip(text)), "|", 2) = <<<<"y","t">>, fmt, Strip(text)>>
    /\ Decoded /\ handler.data \in keyboards
       => /\ handler.fmt \in Formats
          /\ \E id \in 1..nUpd : /\ inbox[id].kind = "text"
                                 /\ handler.url = Strip(inbox[id].text)
          /\ handler.data = CallbackData(handler.fmt, handler.url)
    /\ \A id \in ForeignUpdates :
          /\ calls[id] = 0
          /\ outbox[id] = <<>>
          /\ handler.id = id => handler.pc = "await_answer" /\ ytFiles = {}

\* the handler of the mp4 button of a URL that holds "|" is extracting that URL
C17_Witness ==
    /\ handler.pc = "await_extract"
    /\ handler.fmt = Mp4
    /\ handler.url = UrlTubeBar
    /\ inbox[1].text = UrlTubeBar

(***************************************************************************)
(* C18.  Send-kind follows artifact kind: the batch archive goes out as a  *)
(* document and a batch request sends nothing else but texts; a scrape     *)
(* file goes out as a video exactly when it is the .mp4 file and as a      *)
(* photo otherwise; a single-item file goes out as audio exactly when the  *)
(* button's format is mp3 and as a video otherwise; and each artifact is   *)
(* sent at most once.                                                      *)
(***************************************************************************)
\* the message the step delivers to the requester of update id
Delivered(id) == outbox'[id][Len(outbox'[id])]

MediaKinds == {"document", "photo", "video", "audio"}

C18_SendKindFollowsArtifact ==
    /\ [][\A id \in Ids :
             Len(outbox'[id]) > Len(outbox[id])
             => /\ tasks[id].pc = "await_send"
                   => Delivered(id).kind = "document" /\ Delivered(id).tag = "archive"
                /\ tasks[id].pc # "none" /\ tasks[id].pc # "await_send"
                   => Delivered(id).kind = "text"
                /\ handler.id = id /\ handler.pc = "await_pin_send"
                   => /\ Delivered(id).kind \in {"photo", "video"}
                      /\ Delivered(id).kind = "video"
                         <=> handler.files[handler.idx].ext = "mp4"
                /\ handler.id = id /\ handler.pc = "await_yt_send"
                   => /\ Delivered(id).kind \in {"audio", "video"}
                      /\ Delivered(id).kind = "audio"
                         <=> inbox[id].text = CallbackData(Mp3, handler.url)
                /\ Delivered(id).kind \in MediaKinds
                   => \/ tasks[id].pc = "await_send"
                      \/ /\ handler.id = id
                         /\ handler.pc \in {"await_pin_send", "await_yt_send"}]_vars
    /\ [](\A id \in Ids :
             /\ \A kind \in MediaKinds : Cardinality(Sent(outbox[id], kind)) <= 1
             /\ Sent(outbox[id], "document") # {}
                => Sent(outbox[id], "photo") \cup Sent(outbox[id], "video")
                   \cup Sent(outbox[id], "audio") = {}
             /\ Sent(outbox[id], "audio") # {}
                => Sent(outbox[id], "photo") \cup Sent(outbox[id], "video") = {}
             /\ \A i, j \in 1..Len(outbox[id]) :
                   i # j /\ outbox[id][i].tag = "pin" /\ outbox[id][j].tag = "pin"
                   => outbox[id][i].arg # outbox[id][j].arg)

\* a scrape that found an image and a video sent the first as a photo and the
\* second as a video
C18_Witness ==
    \E id \in 1..nUpd :
       /\ ended[id] = "returned"
       /\ outbox[id] = <<Msg("text", "pinterest_detected", 0),
                         Msg("photo", "pin", 1), Msg("video", "pin", 2)>>

(***************************************************************************)
(* C19.  Cleanup is confined to the request's own files: no step of one    *)
(* batch request removes the workspace directory, or the archive file,     *)
(* that another batch request is using (it has created the workspace and   *)
(* has not finished sending).                                              *)
(* The workspace is named after hash(url) and the archive after the artist *)
(* or "Playlist" (see C2), so the cleanup lines of one request remove the  *)
(* directory and the archive of a concurrent request for the same URL.     *)
(***************************************************************************)
\* task u has created its workspace and has not finished sending
UsingWorkspace(u) ==
    /\ WorkspaceCreated(u)
    /\ tasks[u].pc \in {"await_dl", "dl_ready", "zipping", "await_send"}

C19_CleanupConfined ==
    [][\A t, u \in Ids :
          t # u /\ tasks'[t] # tasks[t] /\ UsingWorkspace(u)
          => /\ tasks[u].temp_dir \in DOMAIN wsDirs
                => tasks[u].temp_dir \in DOMAIN wsDirs'
             /\ tasks[u].archive # <<>> /\ tasks[u].zip_path \in DOMAIN zipFiles
                => tasks[u].zip_path \in DOMAIN zipFiles']_vars

(***************************************************************************)
(* C20.  A URL of the third platform alone starts no download: its request *)
(* makes no collaborator call, spawns no task and sends nothing but the    *)
(* format prompt; an extraction runs, and an extracted file exists, only   *)
(* inside the handler of a button press; and each button press makes at    *)
(* most one extraction call and at most one media send.                    *)
(***************************************************************************)
\* the text updates that hold a URL of the third platform
PromptUpdates ==
    {id \in 1..nUpd : /\ inbox[id].kind = "text"
                      /\ ClassOf[inbox[id].text] = "youtube"}

ButtonUpdates == {id \in 1..nUpd : inbox[id].kind = "button"}

Extracting == handler.pc \in {"await_extract", "extract_ready", "await_yt_send"}

C20_PromptStartsNoDownload ==
    /\ \A id \in PromptUpdates :
          /\ calls[id] = 0
          /\ tasks[id].pc = "none"
          /\ outbox[id] \in {<<>>, <<Msg("text", "choose_format", 0)>>}
          /\ handler.id = id => handler.pc = "await_prompt"
    /\ Extracting \/ ytFiles # {} => handler.id \in ButtonUpdates
    /\ \A id \in ButtonUpdates :
          /\ calls[id] <= 1
          /\ Len(outbox[id]) <= 1
          /\ outbox[id] # <<>> => calls[id] = 1 /\ outbox[id][1].kind \in {"audio", "video"}

\* the URL got its prompt and nothing else, and the press of its mp3 button made one
\* extraction and one audio send
C20_Witness ==
    /\ nUpd = 2
    /\ 1 \in PromptUpdates
    /\ outbox[1] = <<Msg("text", "choose_format", 0)>>
    /\ calls[1] = 0
    /\ 2 \in ButtonUpdates
    /\ calls[2] = 1
    /\ outbox[2] = <<Msg("audio", "yt", 0)>>

=============================================================================
